---- MODULE Spec2Model ----
(***************************************************************************)
(* A model of the Sublime Text / Merlin integration plugin                 *)
(* (sublime-text-merlin.py).  The editor host runs every synchronous       *)
(* callback and command of the plugin on its main thread; a handler runs   *)
(* until it blocks on the analyzer, and resumes when the response arrives. *)
(* The analyzer session (merlin/process.py) and the helpers                *)
(* (merlin/helpers.py) are not part of the sources at hand and are         *)
(* modelled from the design document.                                      *)
(***************************************************************************)
EXTENDS Integers, Sequences, FiniteSets, TLC

(***************************************************************************)
(* Bounds of the model.                                                    *)
(***************************************************************************)
MaxCrashes == 1
MaxPending == 1

Views == {1, 2}
Threads == {"main", "async"}

(***************************************************************************)
(* Buffers.  A text is a sequence of characters; an editor offset p lies   *)
(* between character p and character p + 1.                                *)
(***************************************************************************)
Text1 == <<"a", ".", "\n", "b">>
Text2 == <<"a", " ", "-", ">">>
Texts == <<Text1, Text2>>
WordChars == {"a", "b", "_"}

Min(a, b) == IF a < b THEN a ELSE b
Max(a, b) == IF a > b THEN a ELSE b
SetMax(S) == CHOOSE x \in S : \A y \in S : y <= x
SetMin(S) == CHOOSE x \in S : \A y \in S : x <= y
Clamp(txt, p) == Max(0, Min(p, Len(txt)))

\* sublime.Region: a pair of offsets with begin() and end()
Region(a, b) == [a |-> a, b |-> b]
begin(r) == Min(r.a, r.b)
end(r) == Max(r.a, r.b)
\* sublime.Region.intersects
intersects(l, r) ==
    \/ begin(l) = begin(r) /\ end(l) = end(r)
    \/ begin(r) > begin(l) /\ begin(r) < end(l)
    \/ end(r) > begin(l) /\ end(r) < end(l)
    \/ begin(l) > begin(r) /\ begin(l) < end(r)
    \/ end(l) > begin(r) /\ end(l) < end(r)

\* the newline characters before offset p
NewlinesBefore(txt, p) == {i \in 1..Clamp(txt, p) : txt[i] = "\n"}
\* offset of the start of the line holding offset p
LineStart(txt, p) ==
    IF NewlinesBefore(txt, p) = {} THEN 0 ELSE SetMax(NewlinesBefore(txt, p))
\* offset of the end of the line holding offset p (before its newline)
LineEnd(txt, p) ==
    LET after == {i \in (Clamp(txt, p) + 1)..Len(txt) : txt[i] = "\n"}
    IN  IF after = {} THEN Len(txt) ELSE SetMin(after) - 1
\* view.rowcol(p): 0-based row and column of an offset
rowcol(txt, p) ==
    [row |-> Cardinality(NewlinesBefore(txt, p)),
     col |-> Clamp(txt, p) - LineStart(txt, p)]
\* view.text_point(row, col): the offset of a 0-based row and column
text_point(txt, row, col) ==
    LET nls == {i \in 1..Len(txt) : txt[i] = "\n"}
        starts == {0} \cup nls
        rowStart == IF row <= 0 THEN 0
                    ELSE IF row > Cardinality(nls) THEN Len(txt)
                    ELSE CHOOSE s \in nls :
                           Cardinality({i \in nls : i <= s}) = row
    IN  Clamp(txt, rowStart + col)
\* view.line(p): the line holding p, without its newline
line(txt, p) == Region(LineStart(txt, p), LineEnd(txt, p))
\* view.full_line(r): the lines r spans, with the trailing newline
full_line(txt, r) ==
    Region(LineStart(txt, begin(r)), Min(LineEnd(txt, end(r)) + 1, Len(txt)))
\* view.substr(r)
substr(txt, r) ==
    SubSeq(txt, Clamp(txt, begin(r)) + 1, Clamp(txt, end(r)))

\* merlin.helpers.merlin_pos: analyzer position (1-based line, 0-based
\* column) to editor offset
merlin_pos(txt, pos) == text_point(txt, pos.line - 1, pos.col)

\* the characters of s that the pattern (([\w.]|->)+) can consume
IsAtomAt(s, i) ==
    \/ s[i] \in WordChars \cup {"."}
    \/ s[i] = "-" /\ i < Len(s) /\ s[i + 1] = ">"
    \/ s[i] = ">" /\ i > 1 /\ s[i - 1] = "-"
\* re.findall(r"(([\w.]|->)+)", s)[-1][0], or "" when nothing matches
ExpandPrefix(s) ==
    LET atoms == {i \in 1..Len(s) : IsAtomAt(s, i)}
    IN  IF atoms = {} THEN <<>>
        ELSE LET last == SetMax(atoms)
                 first == SetMin({j \in 1..last :
                                    \A k \in j..last : k \in atoms})
             IN  SubSeq(s, first, last)

\* merlin.helpers.clean_whitespace: the message text, normalised
clean_whitespace(m) == <<"clean", m>>

(***************************************************************************)
(* What the analyzer can answer.                                           *)
(***************************************************************************)
Pos(l, c) == [line |-> l, col |-> c]
Diag1 == [start |-> <<Pos(1, 0)>>, end |-> <<Pos(1, 1)>>, message |-> "m1"]
Diag2 == [start |-> <<Pos(2, 0)>>, end |-> <<Pos(2, 1)>>, message |-> "m2"]
DiagNoPos == [start |-> <<>>, end |-> <<>>, message |-> "m3"]
DiagResponses == {<<>>, <<Diag2, DiagNoPos, Diag1>>}

Ok(v) == [ok |-> TRUE, val |-> v, err |-> ""]
Fail(e) == [ok |-> FALSE, val |-> <<>>, err |-> e]

Item1 == [type |-> "int", tail |-> "no", start |-> Pos(1, 0), end |-> Pos(1, 1)]
Item2 ==
    [type |-> "unit", tail |-> "call", start |-> Pos(1, 0), end |-> Pos(2, 1)]
TypeResponses == {<<>>, <<Item1, Item2>>}

\* a locate result: a dict with pos and maybe file, or a plain message
LocateResponses ==
    {[file |-> <<"f.ml">>, pos |-> <<Pos(2, 1)>>, msg |-> <<>>],
     [file |-> <<>>, pos |-> <<Pos(2, 1)>>, msg |-> <<>>],
     [file |-> <<>>, pos |-> <<>>, msg |-> <<"Not found">>]}

Entry1 == [name |-> "List", desc |-> "module"]
Entry2 == [name |-> "map", desc |-> "fn"]
CompleteResponses == {[entries |-> <<>>], [entries |-> <<Entry1, Entry2>>]}

Names == {"x"}

\* directories the user enters, syntax extensions and packages the analyzer
\* knows, and the files on the analyzer's path
Dirs == {"/a", "/b"}
Extensions == <<"lwt", "meta">>
Packages == <<"lwt", "unix">>
Files == {<<"m", ".mli">>, <<"m", ".ml">>, <<"n", ".mfi">>, <<"n", ".mf">>}

\* the session's configuration before any command changed it
NoConfig ==
    [build_path |-> <<>>, source_path |-> <<>>, extensions |-> {},
     packages |-> {}]
Range(q) == {q[i] : i \in DOMAIN q}
\* path-add: the directory is on the list once afterwards
PathAdd(path, dir) == IF dir \in Range(path) THEN path ELSE Append(path, dir)
\* path-remove
PathRemove(path, dir) == SelectSeq(path, LAMBDA d : d # dir)
\* extension-list(state)
ExtensionList(enabled, state) ==
    SelectSeq(Extensions,
              LAMBDA e : IF state = "enabled" THEN e \in enabled
                         ELSE e \notin enabled)
\* which-with-ext(extensions): the modules that have a file with one of
\* the extensions
WhichWithExt(exts) ==
    SelectSeq(<<"m", "n">>,
              LAMBDA m : \E i \in DOMAIN exts : <<m, exts[i]>> \in Files)
\* which-path(candidates): the first candidate that exists
WhichPath(candidates) ==
    LET found == {i \in DOMAIN candidates : candidates[i] \in Files}
    IN  IF found = {} THEN <<>> ELSE <<candidates[SetMin(found)]>>

Responses(op) ==
    CASE op = "sync" -> {<<>>}
      [] op = "report_errors" -> DiagResponses
      [] op = "type_enclosing" -> TypeResponses
      [] op = "locate" -> LocateResponses
      [] op = "complete_cursor" -> CompleteResponses
      [] OTHER -> {<<>>}

(***************************************************************************)
(* State.                                                                  *)
(***************************************************************************)
VARIABLES
    running_process,  \* the module global: 0 is None, else the MerlinProcess
    constructed,      \* how many MerlinProcess objects were ever constructed
    alive,            \* whether the analyzer subprocess is running
    crashes,          \* how often the subprocess died
    inflight,         \* commands written to the subprocess and not answered
    call,             \* per thread: the session operation it is blocked in
    lastCall,         \* how the last session operation ended
    th,               \* per thread: the handler it runs and where it is
    buf,              \* per view: its text (an index into Texts)
    sel,              \* per view: its selection, a sequence of regions
    active,           \* window.active_view()
    cplns_ready,      \* Autocomplete.cplns_ready: "None", "False" or "True"
    completions,      \* Autocomplete.completions
    cplnsFrom,        \* the request that produced completions
    timeouts,         \* callbacks scheduled with sublime.set_timeout
    error_messages,   \* MerlinBuffer.error_messages
    errorsFrom,       \* the view whose report_errors filled error_messages
    underlines,       \* per view: the regions 'ocaml-underlines-errors'
    panel,            \* merlin_error_panel
    ui,               \* the input panel or menu waiting for the user
    config,           \* the session's build path, source path, extensions
    inv,              \* what the running handler invocation did so far
    workload          \* the group of features the user works with

procVars == <<running_process, constructed, alive>>
wireVars == <<inflight, call, lastCall>>
edVars == <<buf, sel, active>>
cplVars == <<cplns_ready, completions, cplnsFrom, timeouts>>
diagVars == <<error_messages, errorsFrom, underlines, panel>>
vars == <<running_process, constructed, alive, crashes, inflight, call,
          lastCall, th, buf, sel, active, cplns_ready, completions, cplnsFrom,
          timeouts, error_messages, errorsFrom, underlines, panel, ui, config,
          inv, workload>>

IdleFrame == [h |-> "idle", pc |-> "", view |-> 0, pos |-> 0, arg |-> <<>>]
Frame(h, pc, v, pos, arg) ==
    [h |-> h, pc |-> pc, view |-> v, pos |-> pos, arg |-> arg]
NoCall ==
    [op |-> "", view |-> 0, args |-> <<>>, proc |-> 0, deadAtStart |-> FALSE,
     attempts |-> 0, respawns |-> 0, st |-> "none"]
NoInv ==
    [h |-> "", view |-> 0, synced |-> 0, syncedBuf |-> 0, q |-> <<>>,
     pos |-> -1, ret |-> <<>>, retFrom |-> <<>>, req |-> <<>>,
     opened |-> <<>>,
     dialog |-> <<>>, popup |-> <<>>, selBefore |-> <<>>, resp |-> <<>>,
     issued |-> <<>>, cfgBefore |-> <<>>, aborted |-> FALSE]
NewInv(h, v) ==
    [NoInv EXCEPT !.h = h, !.view = v, !.selBefore = sel,
                  !.cfgBefore = <<config>>]
ClosedPanel == [view |-> FALSE, shown |-> FALSE, data |-> <<>>]
Caret(p) == <<Region(p, p)>>
\* the selections the user makes: a caret, or a range and a caret
SelChoices == {Caret(0), Caret(3), <<Region(1, 2), Region(4, 4)>>}

\* The user's work in one session stays within one group of features; the
\* groups share the analyzer session, the views and their selections.
\* Edits, selection changes and view switches occur with the features that
\* read the buffer or the selection; view switches occur in every session.
Workloads ==
    {"diagnostics", "completion", "types", "navigation", "paths", "project"}
Features(w) ==
    {"activate"} \cup
    (IF w \in {"paths", "project"} THEN {}
     ELSE {"on_modified", "on_selection_modified"}) \cup
    CASE w = "diagnostics" -> {"on_post_save", "on_hover"}
      [] w = "completion" -> {"on_query_completions"}
      [] w = "types" -> {"MerlinTypeCommand", "MerlinTypeMenu", "on_hover"}
      [] w = "navigation" ->
            {"MerlinLocateMli", "MerlinLocateMl", "MerlinLocateMf",
             "MerlinLocateNameMli", "MerlinLocateNameMl", "MerlinLocateNameMf"}
      [] w = "paths" ->
            {"MerlinAddBuildPath", "MerlinAddSourcePath",
             "MerlinRemoveBuildPath", "MerlinRemoveSourcePath"}
      [] w = "project" ->
            {"MerlinLoadPackage", "MerlinEnableExtension",
             "MerlinDisableExtension", "MerlinFindMl", "MerlinFindMli"}

Init ==
    /\ running_process = 0
    /\ constructed = 0
    /\ alive = FALSE
    /\ crashes = 0
    /\ inflight = 0
    /\ call = [t \in Threads |-> NoCall]
    /\ lastCall = <<>>
    /\ th = [t \in Threads |-> IdleFrame]
    /\ buf \in [Views -> 1..Len(Texts)]
    /\ sel = [v \in Views |-> Caret(0)]
    /\ active = 1
    /\ cplns_ready = "None"
    /\ completions = <<>>
    /\ cplnsFrom = <<>>
    /\ timeouts = <<>>
    /\ error_messages = <<>>
    /\ errorsFrom = <<>>
    /\ underlines = [v \in Views |-> <<>>]
    /\ panel = ClosedPanel
    /\ ui = <<>>
    /\ config = NoConfig
    /\ inv = NoInv
    /\ workload \in Workloads

(***************************************************************************)
(* The host: which thread runs a handler.  The plugin defines only the     *)
(* synchronous callbacks (on_post_save, not on_post_save_async) and uses   *)
(* sublime.set_timeout (not set_timeout_async), so all run on "main".      *)
(***************************************************************************)
\* on_post_save_async in place of on_post_save: the host's worker thread
ThreadOf_async(h) == IF h = "on_post_save" THEN "async" ELSE "main"
ThreadOf(h) == "main"
Idle(t) == th[t].h = "idle"
At(t, h, pc) == th[t].h = h /\ th[t].pc = pc
\* the user can act on the editor when no panel or menu holds the focus
Free(h) == Idle(ThreadOf(h)) /\ ui = <<>> /\ h \in Features(workload)

(***************************************************************************)
(* merlin_process / merlin_view and the session operations.                *)
(***************************************************************************)
\* merlin_process() without the test for None
merlin_process_fresh == [proc |-> constructed + 1, made |-> 1]
\* merlin_process(): the global instance, constructed on first use
merlin_process ==
    IF running_process = 0
    THEN [proc |-> constructed + 1, made |-> 1]
    ELSE [proc |-> running_process, made |-> 0]

\* a session that writes to the closed transport without a respawn
Attempt_norespawn(up) == [attempts |-> 1, respawns |-> 0]
\* SessionClient: a closed transport is respawned once and the command
\* retried once; a second transport failure is surfaced
Attempt(up) ==
    IF up THEN [attempts |-> 1, respawns |-> 0]
    ELSE [attempts |-> 2, respawns |-> 1]
MayRetry(c) == c.attempts < 2

\* merlin_view(view).<op>(args): thread t starts a session operation
Begin(t, op, v, args, base) ==
    LET mp == merlin_process
        up == mp.made = 1 \/ alive
        a == Attempt(up)
    IN  /\ running_process' = mp.proc
        /\ constructed' = constructed + mp.made
        /\ \E ok \in (IF up THEN {TRUE} ELSE BOOLEAN) :
              /\ alive' = ok
              /\ call' = [call EXCEPT ![t] =
                    [op |-> op, view |-> v, args |-> args, proc |-> mp.proc,
                     deadAtStart |-> ~up, attempts |-> a.attempts,
                     respawns |-> a.respawns,
                     st |-> IF ok THEN "sent" ELSE "failed"]]
              /\ inflight' = base + (IF ok THEN 1 ELSE 0)

\* the wire after thread t's pending command was answered (or lost)
Answered(t) == inflight - (IF call[t].st = "sent" THEN 1 ELSE 0)
\* what the analyzer answers to a command, given the session's configuration
Replies(c) ==
    CASE c.op = "list_build_path" -> {config.build_path}
      [] c.op = "list_source_path" -> {config.source_path}
      [] c.op = "extension_list" ->
            {ExtensionList(config.extensions, c.args[1])}
      [] c.op = "find_list" -> {Packages}
      [] c.op = "which_with_ext" -> {WhichWithExt(c.args)}
      [] c.op = "which_path" -> Range(WhichPath(c.args))
      [] OTHER -> Responses(c.op)
\* the session's configuration after the analyzer carried out a command
Applied(cfg, c) ==
    CASE c.op = "add_build_path" ->
            [cfg EXCEPT !.build_path = PathAdd(@, c.args[1])]
      [] c.op = "remove_build_path" ->
            [cfg EXCEPT !.build_path = PathRemove(@, c.args[1])]
      [] c.op = "add_source_path" ->
            [cfg EXCEPT !.source_path = PathAdd(@, c.args[1])]
      [] c.op = "remove_source_path" ->
            [cfg EXCEPT !.source_path = PathRemove(@, c.args[1])]
      [] c.op = "extension_enable" ->
            [cfg EXCEPT !.extensions = @ \cup Range(c.args[1])]
      [] c.op = "extension_disable" ->
            [cfg EXCEPT !.extensions = @ \ Range(c.args[1])]
      [] c.op = "find_use" -> [cfg EXCEPT !.packages = @ \cup {c.args[1]}]
      [] OTHER -> cfg
\* how the pending operation of thread t can end
Outcomes(t) ==
    IF call[t].st = "failed" THEN {Fail("TransportError")}
    ELSE IF ~alive
         THEN (IF MayRetry(call[t]) THEN {} ELSE {Fail("TransportError")})
         ELSE {Ok(r) : r \in Replies(call[t])} \cup {Fail("AnalyzerError")}
Ended(t, o) ==
    <<[op |-> call[t].op, deadAtStart |-> call[t].deadAtStart,
       attempts |-> call[t].attempts, respawns |-> call[t].respawns,
       transportFailed |-> (call[t].st = "failed" \/ ~alive),
       ok |-> o.ok, err |-> o.err]>>
\* the operation returned and the handler issues no further one
End(t, o) ==
    /\ call' = [call EXCEPT ![t] = NoCall]
    /\ inflight' = Answered(t)
    /\ lastCall' = Ended(t, o)
    /\ UNCHANGED procVars
\* the operation raised: the handler is left through the exception
Raise(t, o) ==
    /\ End(t, o)
    /\ th' = [th EXCEPT ![t].pc = "done"]
    /\ inv' = [inv EXCEPT !.aborted = TRUE]

\* the transport closed under a command in flight: respawn and retry once
Retry(t) ==
    /\ call[t].st = "sent"
    /\ ~alive
    /\ MayRetry(call[t])
    /\ \E ok \in BOOLEAN :
          /\ alive' = ok
          /\ call' = [call EXCEPT ![t].attempts = 2,
                                  ![t].respawns = call[t].respawns + 1,
                                  ![t].st = IF ok THEN "sent" ELSE "failed"]
          /\ inflight' = Answered(t) + (IF ok THEN 1 ELSE 0)
    /\ UNCHANGED <<workload, config, running_process, constructed, crashes,
                   lastCall, th, edVars, cplVars, diagVars, ui, inv>>

\* the analyzer subprocess dies
Crash ==
    /\ running_process # 0
    /\ alive
    /\ crashes < MaxCrashes
    /\ alive' = FALSE
    /\ crashes' = crashes + 1
    /\ UNCHANGED <<workload, config, running_process, constructed, wireVars,
                   th, edVars, cplVars, diagVars, ui, inv>>

\* the handler returned to the host
Return(t) ==
    /\ th[t].pc = "done"
    /\ th' = [th EXCEPT ![t] = IdleFrame]
    /\ inv' = NoInv
    /\ lastCall' = <<>>
    /\ UNCHANGED <<workload, config, procVars, crashes, inflight, call, edVars,
                   cplVars, diagVars, ui>>

(***************************************************************************)
(* MerlinErrorPanel and MerlinBuffer: diagnostics.                         *)
(***************************************************************************)
\* MerlinErrorPanel.open(): create the output panel if needed, show it
PanelOpen(p) == [p EXCEPT !.view = TRUE, !.shown = TRUE]
\* MerlinErrorPanel.set_data(data)
PanelSetData(p, d) == [p EXCEPT !.data = <<d>>]
\* MerlinErrorPanel.close(): hide the panel
PanelClose(p) == [p EXCEPT !.shown = FALSE]

\* MerlinBuffer.__get_lineno
get_lineno(txt, pos) == rowcol(txt, pos).row

\* MerlinBuffer.display_in_error_panel: the loop over error_messages
RECURSIVE DisplayLoop(_, _, _, _)
DisplayLoop(msgs, caret, txt, p) ==
    IF msgs = <<>> THEN p
    ELSE IF intersects(Head(msgs).region, caret)
         THEN PanelSetData(PanelOpen(p),
                  [lineno |-> get_lineno(txt, begin(Head(msgs).region)),
                   text |-> Head(msgs).text])
         ELSE DisplayLoop(Tail(msgs), caret, txt, PanelClose(p))
display_in_error_panel(msgs, selection, txt, p) ==
    DisplayLoop(msgs, selection[1], txt, p)

\* MerlinBuffer.show_errors: the diagnostics that have a start and an end
Located(errors) == SelectSeq(errors, LAMBDA e : e.start # <<>> /\ e.end # <<>>)
ErrorRegion(txt, e) ==
    Region(merlin_pos(txt, e.start[1]), merlin_pos(txt, e.end[1]))
ErrorLine(txt, e) ==
    LET line_r == full_line(txt, ErrorRegion(txt, e))
    IN  Region(line_r.a - 1, line_r.b)
\* show_errors appending to self.error_messages instead of replacing it
ErrorMessages_append(txt, errors) ==
    error_messages \o
    [i \in 1..Len(Located(errors)) |->
        [region |-> ErrorLine(txt, Located(errors)[i]),
         text |-> clean_whitespace(Located(errors)[i].message)]]
ErrorMessages(txt, errors) ==
    [i \in 1..Len(Located(errors)) |->
        [region |-> ErrorLine(txt, Located(errors)[i]),
         text |-> clean_whitespace(Located(errors)[i].message)]]
Underlines(txt, errors) ==
    [i \in 1..Len(Located(errors)) |-> ErrorRegion(txt, Located(errors)[i])]

\* MerlinBuffer.on_post_save(view): merlin_view(view).sync() is issued
on_post_save(v) ==
    LET t == ThreadOf("on_post_save")
    IN  /\ Free("on_post_save")
        /\ th' = [th EXCEPT ![t] = Frame("on_post_save", "sync", v, 0, <<>>)]
        /\ inv' = NewInv("on_post_save", v)
        /\ Begin(t, "sync", v, <<>>, inflight)
        /\ UNCHANGED <<workload, config, crashes, lastCall, edVars, cplVars,
                       diagVars, ui>>

\* sync() returned; show_errors erases the regions and asks for the errors
post_save_synced(t) ==
    /\ At(t, "on_post_save", "sync")
    /\ \E o \in Outcomes(t) :
          IF o.ok
          THEN /\ underlines' = [underlines EXCEPT ![th[t].view] = <<>>]
               /\ th' = [th EXCEPT ![t].pc = "report_errors"]
               /\ inv' = [inv EXCEPT !.synced = th[t].view,
                                     !.syncedBuf = buf[th[t].view]]
               /\ lastCall' = Ended(t, o)
               /\ Begin(t, "report_errors", th[t].view, <<>>, Answered(t))
               /\ UNCHANGED <<error_messages, errorsFrom, panel>>
          ELSE /\ Raise(t, o)
               /\ UNCHANGED diagVars
    /\ UNCHANGED <<workload, config, crashes, edVars, cplVars, ui>>

\* report_errors() returned; the rest of show_errors, then
\* display_in_error_panel
post_save_errors(t) ==
    /\ At(t, "on_post_save", "report_errors")
    /\ \E o \in Outcomes(t) :
          IF o.ok
          THEN LET v == th[t].view
                   msgs == ErrorMessages(Texts[buf[v]], o.val)
               IN  /\ error_messages' = msgs
                   /\ errorsFrom' = IF msgs = <<>> THEN <<>> ELSE <<v>>
                   /\ underlines' = [underlines EXCEPT
                                       ![v] = Underlines(Texts[buf[v]], o.val)]
                   /\ panel' = display_in_error_panel(msgs, sel[v],
                                                      Texts[buf[v]], panel)
                   /\ th' = [th EXCEPT ![t].pc = "done"]
                   /\ inv' = [inv EXCEPT !.resp = <<o.val>>]
                   /\ End(t, o)
          ELSE /\ Raise(t, o)
               /\ UNCHANGED diagVars
    /\ UNCHANGED <<workload, config, crashes, edVars, cplVars, ui>>

\* the user edits view v, and MerlinBuffer.on_modified(view) runs
on_modified(v) ==
    /\ Free("on_modified")
    /\ v = active
    /\ \E b \in 1..Len(Texts) :
          /\ b # buf[v]
          /\ buf' = [buf EXCEPT ![v] = b]
    /\ underlines' = [underlines EXCEPT ![v] = <<>>]
    /\ UNCHANGED <<workload, config, procVars, crashes, wireVars, th, sel,
                   active, cplVars, error_messages, errorsFrom, panel, ui,
                   inv>>

\* the user changes the selection of view v, and
\* MerlinBuffer.on_selection_modified(view) runs
on_selection_modified(v) ==
    LET t == ThreadOf("on_selection_modified")
    IN  /\ Free("on_selection_modified")
        /\ v = active
        /\ \E s \in SelChoices :
              /\ s # sel[v]
              /\ sel' = [sel EXCEPT ![v] = s]
              /\ panel' = display_in_error_panel(error_messages, s,
                                                 Texts[buf[v]], panel)
        /\ th' = [th EXCEPT ![t] =
                     Frame("on_selection_modified", "done", v, 0, <<>>)]
        /\ inv' = NewInv("on_selection_modified", v)
        /\ UNCHANGED <<workload, config, procVars, crashes, wireVars, buf,
                       active, cplVars, error_messages, errorsFrom, underlines,
                       ui>>

\* the user brings another view to the front
Activate(v) ==
    /\ Free("activate")
    /\ v # active
    /\ active' = v
    /\ UNCHANGED <<workload, config, procVars, crashes, wireVars, th, buf, sel,
                   cplVars, diagVars, ui, inv>>

(***************************************************************************)
(* MerlinTypeEnclosing and the commands built on it.                       *)
(***************************************************************************)
TypeHandlers == {"MerlinTypeCommand", "on_hover", "MerlinTypeMenu"}
NoPos == -1
Language == "ocaml"

\* the position-dependent query a handler issued, with the buffer it saw
Query(op, v, args) ==
    <<[op |-> op, view |-> v, args |-> args, buf |-> buf[v]]>>

\* MerlinTypeEnclosing.__init__: the position the query is about
EnclosingPos(v, pos) == IF pos = NoPos THEN begin(sel[v][1]) ELSE pos
\* type_enclosing(line, col) with the editor's 0-based row
EnclosingArgs_zeroBased(txt, p) ==
    [line |-> rowcol(txt, p).row, col |-> rowcol(txt, p).col]
\* MerlinTypeEnclosing.__init__: the arguments of type_enclosing
EnclosingArgs(txt, p) ==
    [line |-> rowcol(txt, p).row + 1, col |-> rowcol(txt, p).col]
\* MerlinTypeEnclosing._item_region
item_region(txt, item) ==
    Region(merlin_pos(txt, item.start), merlin_pos(txt, item.end))
\* MerlinTypeEnclosing._item_format
item_format(item) ==
    [language |-> Language,
     text |-> <<item.type>> \o
              (IF item.tail = "position" THEN <<" (*tail-position*)">>
               ELSE <<>>) \o
              (IF item.tail = "call" THEN <<" (*tail-call*)">> ELSE <<>>)]
\* MerlinTypeEnclosing._items
items(enclosing) == [i \in 1..Len(enclosing) |-> item_format(enclosing[i])]

\* MerlinTypeCommand.run: MerlinTypeEnclosing(self.view)
MerlinTypeCommand(v) ==
    LET t == ThreadOf("MerlinTypeCommand")
    IN  /\ Free("MerlinTypeCommand")
        /\ v = active
        /\ th' = [th EXCEPT ![t] =
                     Frame("MerlinTypeCommand", "sync", v, NoPos, <<>>)]
        /\ inv' = NewInv("MerlinTypeCommand", v)
        /\ Begin(t, "sync", v, <<>>, inflight)
        /\ UNCHANGED <<workload, config, crashes, lastCall, edVars, cplVars,
                       diagVars, ui>>

\* MerlinTypeMenu.run: MerlinTypeEnclosing(self.view)
MerlinTypeMenu(v) ==
    LET t == ThreadOf("MerlinTypeMenu")
    IN  /\ Free("MerlinTypeMenu")
        /\ v = active
        /\ th' = [th EXCEPT ![t] =
                     Frame("MerlinTypeMenu", "sync", v, NoPos, <<>>)]
        /\ inv' = NewInv("MerlinTypeMenu", v)
        /\ Begin(t, "sync", v, <<>>, inflight)
        /\ UNCHANGED <<workload, config, crashes, lastCall, edVars, cplVars,
                       diagVars, ui>>

\* on_hover asking type_enclosing without the sync() before it
on_hover_unsynced(v, point) ==
    LET t == ThreadOf("on_hover")
        args == EnclosingArgs(Texts[buf[v]], point)
    IN  /\ Free("on_hover")
        /\ th' = [th EXCEPT ![t] =
                     Frame("on_hover", "type_enclosing", v, point, <<>>)]
        /\ inv' = [NewInv("on_hover", v) EXCEPT
                      !.pos = point, !.q = Query("type_enclosing", v, args)]
        /\ Begin(t, "type_enclosing", v, args, inflight)
        /\ UNCHANGED <<workload, config, crashes, lastCall, edVars, cplVars,
                       diagVars, ui>>

\* MerlinTypeOnHover.on_hover over text: MerlinTypeEnclosing(view, point)
on_hover(v, point) ==
    LET t == ThreadOf("on_hover")
    IN  /\ Free("on_hover")
        /\ th' = [th EXCEPT ![t] = Frame("on_hover", "sync", v, point, <<>>)]
        /\ inv' = NewInv("on_hover", v)
        /\ Begin(t, "sync", v, <<>>, inflight)
        /\ UNCHANGED <<workload, config, crashes, lastCall, edVars, cplVars,
                       diagVars, ui>>

\* MerlinTypeOnHover.on_hover over the gutter or the margin: returns
on_hover_elsewhere(v) ==
    LET t == ThreadOf("on_hover")
    IN  /\ Free("on_hover")
        /\ th' = [th EXCEPT ![t] = Frame("on_hover", "done", v, NoPos, <<>>)]
        /\ inv' = NewInv("on_hover", v)
        /\ UNCHANGED <<workload, config, procVars, crashes, wireVars, edVars,
                       cplVars, diagVars, ui>>

\* MerlinTypeEnclosing.__init__ after sync(): type_enclosing is issued
type_synced(t) ==
    /\ th[t].h \in TypeHandlers
    /\ th[t].pc = "sync"
    /\ \E o \in Outcomes(t) :
          IF o.ok
          THEN LET v == th[t].view
                   p == EnclosingPos(v, th[t].pos)
                   args == EnclosingArgs(Texts[buf[v]], p)
               IN  /\ th' = [th EXCEPT ![t].pc = "type_enclosing"]
                   /\ inv' = [inv EXCEPT !.synced = v, !.syncedBuf = buf[v],
                                         !.pos = p,
                                         !.q = Query("type_enclosing", v, args)]
                   /\ lastCall' = Ended(t, o)
                   /\ Begin(t, "type_enclosing", v, args, Answered(t))
          ELSE Raise(t, o)
    /\ UNCHANGED <<workload, config, crashes, edVars, cplVars, diagVars, ui>>

\* show_panel: _first() and the popup; show_menu: the popup menu
type_enclosed(t) ==
    /\ th[t].h \in TypeHandlers
    /\ th[t].pc = "type_enclosing"
    /\ \E o \in Outcomes(t) :
          IF o.ok
          THEN /\ th' = [th EXCEPT ![t].pc = "done"]
               /\ End(t, o)
               /\ IF th[t].h = "MerlinTypeMenu"
                  THEN /\ ui' = <<[kind |-> "type_menu", view |-> th[t].view,
                                   enclosing |-> o.val,
                                   items |-> items(o.val)]>>
                       /\ inv' = [inv EXCEPT !.resp = <<o.val>>]
                  ELSE /\ ui' = ui
                       /\ inv' = IF o.val = <<>>
                                 THEN [inv EXCEPT !.resp = <<o.val>>,
                                                  !.aborted = TRUE]
                                 ELSE [inv EXCEPT !.resp = <<o.val>>,
                                         !.popup =
                                           <<[content |-> item_format(o.val[1]),
                                              location |->
                                                IF th[t].pos > 0
                                                THEN th[t].pos ELSE -1]>>]
          ELSE /\ Raise(t, o)
               /\ ui' = ui
    /\ UNCHANGED <<workload, config, crashes, edVars, cplVars, diagVars>>

\* MerlinTypeEnclosing.on_done(index): the user chose from the menu, or
\* dismissed it (index -1)
type_menu_on_done(index) ==
    LET t == ThreadOf("MerlinTypeMenu")
        m == ui[1]
    IN  /\ Idle(t)
        /\ ui # <<>>
        /\ m.kind = "type_menu"
        /\ index \in -1..(Len(m.enclosing) - 1)
        /\ ui' = <<>>
        /\ sel' = IF index > -1
                  THEN [sel EXCEPT ![m.view] =
                          <<item_region(Texts[buf[m.view]],
                                        m.enclosing[index + 1])>>]
                  ELSE sel
        /\ th' = [th EXCEPT ![t] =
                     Frame("MerlinTypeMenu.on_done", "done", m.view, NoPos,
                           <<index>>)]
        /\ inv' = [NewInv("MerlinTypeMenu.on_done", m.view) EXCEPT
                      !.resp = <<m.enclosing>>]
        /\ UNCHANGED <<workload, config, procVars, crashes, wireVars, buf,
                       active, cplVars, diagVars>>

(***************************************************************************)
(* The locate commands.                                                    *)
(***************************************************************************)
LocateCommands == {"MerlinLocateMli", "MerlinLocateMl", "MerlinLocateMf"}
LocateNameCommands ==
    {"MerlinLocateNameMli", "MerlinLocateNameMl", "MerlinLocateNameMf"}

\* kind() of the command classes the module ends up binding: the second
\* definitions of MerlinLocateMf and MerlinLocateNameMf replace the first
kind(cmd) ==
    CASE cmd = "MerlinLocateMli" -> "mli"
      [] cmd = "MerlinLocateNameMli" -> "mli"
      [] cmd = "MerlinLocateMl" -> "ml"
      [] cmd = "MerlinLocateNameMl" -> "ml"
      [] cmd = "MerlinLocateMf" -> "mfi"
      [] cmd = "MerlinLocateNameMf" -> "mf"

\* MerlinLocateMli.run: the arguments of locate
LocateArgs(cmd, txt, p) ==
    [line |-> rowcol(txt, p).row + 1, col |-> rowcol(txt, p).col,
     kind |-> <<kind(cmd)>>, ident |-> <<>>]
\* MerlinLocateNameMli.on_done: the arguments of locate
LocateNameArgs(cmd, txt, p, name) ==
    [line |-> rowcol(txt, p).row + 1, col |-> rowcol(txt, p).col,
     kind |-> <<>>, ident |-> <<name>>]

\* merlin_locate_result: the file it opens, if any
LocateOpens(result) ==
    IF result.msg = <<>> /\ result.file # <<>>
    THEN <<[file |-> result.file[1], line |-> result.pos[1].line,
            col |-> result.pos[1].col + 1,
            flags |-> {"ENCODED_POSITION", "TRANSIENT"}]>>
    ELSE <<>>
\* merlin_locate_result without sel.clear()
LocateSelects_add(result, txt, selection) ==
    IF result.msg = <<>> /\ result.file = <<>>
    THEN selection \o Caret(merlin_pos(txt, result.pos[1]))
    ELSE selection
\* merlin_locate_result: the selection of the active view afterwards
LocateSelects(result, txt, selection) ==
    IF result.msg = <<>> /\ result.file = <<>>
    THEN Caret(merlin_pos(txt, result.pos[1]))
    ELSE selection
\* merlin_locate_result: the message dialog it shows, if any
LocateSays(result) == result.msg

\* MerlinLocateMli.run, also of MerlinLocateMl and MerlinLocateMf
MerlinLocate(cmd) ==
    LET t == ThreadOf(cmd)
    IN  /\ Free(cmd)
        /\ th' = [th EXCEPT ![t] = Frame(cmd, "sync", active, NoPos, <<>>)]
        /\ inv' = NewInv(cmd, active)
        /\ Begin(t, "sync", active, <<>>, inflight)
        /\ UNCHANGED <<workload, config, crashes, lastCall, edVars, cplVars,
                       diagVars, ui>>

\* MerlinLocateNameMli.run: the input panel "Enter name"
MerlinLocateName(cmd) ==
    /\ Free(cmd)
    /\ ui' = <<[kind |-> "input", cmd |-> cmd]>>
    /\ UNCHANGED <<workload, config, procVars, crashes, wireVars, th, edVars,
                   cplVars, diagVars, inv>>

\* the user dismisses the input panel
input_cancelled ==
    /\ ui # <<>>
    /\ ui[1].kind \in {"input", "input_dir"}
    /\ Idle("main")
    /\ ui' = <<>>
    /\ UNCHANGED <<workload, config, procVars, crashes, wireVars, th, edVars,
                   cplVars, diagVars, inv>>

\* MerlinLocateNameMli.on_done(name)
locate_name_on_done(name) ==
    LET cmd == ui[1].cmd
        t == ThreadOf(cmd)
    IN  /\ ui # <<>>
        /\ ui[1].kind = "input"
        /\ Idle(t)
        /\ ui' = <<>>
        /\ th' = [th EXCEPT ![t] = Frame(cmd, "sync", active, NoPos, <<name>>)]
        /\ inv' = NewInv(cmd, active)
        /\ Begin(t, "sync", active, <<>>, inflight)
        /\ UNCHANGED <<workload, config, crashes, lastCall, edVars, cplVars,
                       diagVars>>

\* after sync(): locate is issued at the caret
locate_synced(t) ==
    /\ th[t].h \in LocateCommands \cup LocateNameCommands
    /\ th[t].pc = "sync"
    /\ \E o \in Outcomes(t) :
          IF o.ok
          THEN LET v == th[t].view
                   p == begin(sel[v][1])
                   args == IF th[t].h \in LocateCommands
                           THEN LocateArgs(th[t].h, Texts[buf[v]], p)
                           ELSE LocateNameArgs(th[t].h, Texts[buf[v]], p,
                                               th[t].arg[1])
               IN  /\ th' = [th EXCEPT ![t].pc = "locate"]
                   /\ inv' = [inv EXCEPT !.synced = v, !.syncedBuf = buf[v],
                                         !.pos = p,
                                         !.q = Query("locate", v, args)]
                   /\ lastCall' = Ended(t, o)
                   /\ Begin(t, "locate", v, args, Answered(t))
          ELSE Raise(t, o)
    /\ UNCHANGED <<workload, config, crashes, edVars, cplVars, diagVars, ui>>

\* locate returned: merlin_locate_result(result, self.window)
locate_result(t) ==
    /\ th[t].h \in LocateCommands \cup LocateNameCommands
    /\ th[t].pc = "locate"
    /\ \E o \in Outcomes(t) :
          IF o.ok
          THEN /\ th' = [th EXCEPT ![t].pc = "done"]
               /\ End(t, o)
               /\ sel' = [sel EXCEPT ![active] =
                            LocateSelects(o.val, Texts[buf[active]],
                                          sel[active])]
               /\ inv' = [inv EXCEPT !.resp = <<o.val>>,
                                     !.opened = LocateOpens(o.val),
                                     !.dialog = LocateSays(o.val)]
          ELSE /\ Raise(t, o)
               /\ sel' = sel
    /\ UNCHANGED <<workload, config, crashes, buf, active, cplVars, diagVars,
                   ui>>

(***************************************************************************)
(* Autocomplete.                                                           *)
(***************************************************************************)
INHIBIT_WORD_COMPLETIONS == "INHIBIT_WORD_COMPLETIONS"
\* default_return
default_return == [entries |-> <<>>, flags |-> {INHIBIT_WORD_COMPLETIONS}]
\* what the editor gets when the handler returns the stored list
Returned(cplns) == [entries |-> cplns, flags |-> {}]

\* on_query_completions: the prefix, expanded with dots
Prefix(txt, l) == ExpandPrefix(substr(txt, Region(line(txt, l).a, l)))
\* on_query_completions: the arguments of complete_cursor
CompleteArgs(prefix, txt, l) ==
    [prefix |-> prefix, line |-> rowcol(txt, l).row + 1,
     col |-> rowcol(txt, l).col]
\* on_query_completions: self.cplns, built from result['entries']
Cplns(result) ==
    [i \in 1..Len(result.entries) |->
        <<<<result.entries[i].name, "\t", result.entries[i].desc>>,
          result.entries[i].name>>]
\* the request a call of on_query_completions stands for
Request(v, prefix, l) == [view |-> v, prefix |-> prefix, loc |-> l]
\* locations[0]: the caret of the first selection
Location(v) == sel[v][1].b

\* on_query_completions enters: the prefix is expanded and sync() issued
QueryCompletions(t, v, retrigger) ==
    LET l == Location(v)
        prefix == Prefix(Texts[buf[v]], l)
    IN  /\ th' = [th EXCEPT ![t] =
                     Frame("on_query_completions", "sync", v, l,
                           <<prefix, retrigger>>)]
        /\ inv' = [NewInv("on_query_completions", v) EXCEPT
                      !.req = <<Request(v, prefix, l)>>]
        /\ Begin(t, "sync", v, <<>>, inflight)

\* Autocomplete.on_query_completions, asked for by the user's typing
on_query_completions(v) ==
    /\ Free("on_query_completions")
    /\ v = active
    /\ Len(timeouts) < MaxPending \/ cplns_ready # "None"
    /\ QueryCompletions(ThreadOf("on_query_completions"), v, FALSE)
    /\ UNCHANGED <<workload, config, crashes, lastCall, edVars, cplVars,
                   diagVars, ui>>

\* Autocomplete.show(view), run by the timeout: the auto_complete command
\* makes the editor call on_query_completions again
show ==
    /\ timeouts # <<>>
    /\ Idle(ThreadOf("show"))
    /\ timeouts' = Tail(timeouts)
    /\ QueryCompletions(ThreadOf("show"), Head(timeouts), TRUE)
    /\ UNCHANGED <<workload, config, crashes, lastCall, edVars, cplns_ready,
                   completions, cplnsFrom, diagVars, ui>>

\* on_query_completions after sync(): the latch decides
completions_synced(t) ==
    /\ At(t, "on_query_completions", "sync")
    /\ \E o \in Outcomes(t) :
          IF o.ok
          THEN LET v == th[t].view
                   synced == [inv EXCEPT !.synced = v, !.syncedBuf = buf[v]]
               IN  /\ lastCall' = Ended(t, o)
                   /\ CASE cplns_ready = "True" ->
                             /\ cplns_ready' = "None"
                             /\ completions' = <<>>
                             /\ cplnsFrom' = <<>>
                             /\ inv' = IF completions # <<>>
                                       THEN [synced EXCEPT
                                               !.ret =
                                                 <<Returned(completions)>>,
                                               !.retFrom = cplnsFrom]
                                       ELSE [synced EXCEPT
                                               !.ret = <<default_return>>]
                             /\ th' = [th EXCEPT ![t].pc = "done"]
                             /\ call' = [call EXCEPT ![t] = NoCall]
                             /\ inflight' = Answered(t)
                             /\ UNCHANGED procVars
                        [] cplns_ready = "None" ->
                             LET l == th[t].pos
                                 args == CompleteArgs(th[t].arg[1],
                                                      Texts[buf[v]], l)
                             IN  /\ cplns_ready' = "False"
                                 /\ UNCHANGED <<completions, cplnsFrom>>
                                 /\ inv' = [synced EXCEPT
                                      !.pos = l,
                                      !.q = Query("complete_cursor", v, args)]
                                 /\ th' = [th EXCEPT
                                             ![t].pc = "complete_cursor"]
                                 /\ Begin(t, "complete_cursor", v, args,
                                          Answered(t))
                        [] cplns_ready = "False" ->
                             /\ UNCHANGED <<cplns_ready, completions,
                                            cplnsFrom>>
                             /\ inv' = [synced EXCEPT
                                          !.ret = <<default_return>>]
                             /\ th' = [th EXCEPT ![t].pc = "done"]
                             /\ call' = [call EXCEPT ![t] = NoCall]
                             /\ inflight' = Answered(t)
                             /\ UNCHANGED procVars
          ELSE /\ Raise(t, o)
               /\ UNCHANGED <<cplns_ready, completions, cplnsFrom>>
    /\ UNCHANGED <<workload, config, crashes, edVars, timeouts, diagVars, ui>>

\* complete_cursor returned: show_completions, then default_return
completions_result(t) ==
    /\ At(t, "on_query_completions", "complete_cursor")
    /\ \E o \in Outcomes(t) :
          IF o.ok
          THEN LET cplns == Cplns(o.val)
               IN  /\ cplns_ready' = "True"
                   /\ completions' = IF cplns # <<>> THEN cplns
                                     ELSE completions
                   /\ cplnsFrom' = IF cplns # <<>> THEN inv.req ELSE cplnsFrom
                   /\ timeouts' = IF cplns # <<>>
                                  THEN Append(timeouts, th[t].view)
                                  ELSE timeouts
                   /\ inv' = [inv EXCEPT !.resp = <<o.val>>,
                                         !.ret = <<default_return>>]
                   /\ th' = [th EXCEPT ![t].pc = "done"]
                   /\ End(t, o)
          ELSE /\ Raise(t, o)
               /\ UNCHANGED cplVars
    /\ UNCHANGED <<workload, config, crashes, edVars, diagVars, ui>>

(***************************************************************************)
(* The commands that manage the session: packages, build and source path,  *)
(* syntax extensions, and the file finder.                                 *)
(***************************************************************************)
AddPathCommands == {"MerlinAddBuildPath", "MerlinAddSourcePath"}
FindCommands == {"MerlinFindMl", "MerlinFindMli"}
MenuCommands ==
    {"MerlinLoadPackage", "MerlinRemoveBuildPath", "MerlinRemoveSourcePath",
     "MerlinEnableExtension", "MerlinDisableExtension"} \cup FindCommands

\* the handler name of a command's on_done
OnDone(cmd) ==
    CASE cmd = "MerlinLoadPackage" -> "MerlinLoadPackage.on_done"
      [] cmd = "MerlinAddBuildPath" -> "MerlinAddBuildPath.on_done"
      [] cmd = "MerlinAddSourcePath" -> "MerlinAddSourcePath.on_done"
      [] cmd = "MerlinRemoveBuildPath" -> "MerlinRemoveBuildPath.on_done"
      [] cmd = "MerlinRemoveSourcePath" -> "MerlinRemoveSourcePath.on_done"
      [] cmd = "MerlinEnableExtension" -> "MerlinEnableExtension.on_done"
      [] cmd = "MerlinDisableExtension" -> "MerlinDisableExtension.on_done"
      [] cmd = "MerlinFindMl" -> "MerlinFindMl.on_done"
      [] cmd = "MerlinFindMli" -> "MerlinFindMli.on_done"
MenuOnDone == {OnDone(c) : c \in MenuCommands}
AddPathOnDone == {OnDone(c) : c \in AddPathCommands}

\* MerlinFindMl.extensions, MerlinFindMli.extensions
extensions(cmd) ==
    CASE cmd = "MerlinFindMl" -> <<".ml", ".mli", ".mf", ".mfi">>
      [] cmd = "MerlinFindMli" -> <<".mli", ".ml", ".mfi", ".mf">>
      [] OTHER -> <<>>

\* run: the operation whose result fills the quick panel
ListOp(cmd) ==
    CASE cmd = "MerlinLoadPackage" -> "find_list"
      [] cmd = "MerlinRemoveBuildPath" -> "list_build_path"
      [] cmd = "MerlinRemoveSourcePath" -> "list_source_path"
      [] cmd = "MerlinEnableExtension" -> "extension_list"
      [] cmd = "MerlinDisableExtension" -> "extension_list"
      [] cmd \in FindCommands -> "which_with_ext"
ListArgs(cmd) ==
    CASE cmd = "MerlinEnableExtension" -> <<"disabled">>
      [] cmd = "MerlinDisableExtension" -> <<"enabled">>
      [] cmd \in FindCommands -> extensions(cmd)
      [] OTHER -> <<>>

\* on_done: the operation issued for the chosen item or the entered text
ChoiceOp(cmd) ==
    CASE cmd = "MerlinLoadPackage" -> "find_use"
      [] cmd = "MerlinAddBuildPath" -> "add_build_path"
      [] cmd = "MerlinAddSourcePath" -> "add_source_path"
      [] cmd = "MerlinRemoveBuildPath" -> "remove_build_path"
      [] cmd = "MerlinRemoveSourcePath" -> "remove_source_path"
      [] cmd = "MerlinEnableExtension" -> "extension_enable"
      [] cmd = "MerlinDisableExtension" -> "extension_disable"
      [] cmd \in FindCommands -> "which_path"
\* MerlinWhich.on_done: the candidates, in the order of the extensions
Candidates_reversed(module_name, exts) ==
    [i \in DOMAIN exts |-> <<module_name, exts[Len(exts) + 1 - i]>>]
\* MerlinWhich.on_done: map(lambda ext: module_name + ext, self.extensions())
Candidates(module_name, exts) ==
    [i \in DOMAIN exts |-> <<module_name, exts[i]>>]
ChoiceArgs(cmd, item) ==
    CASE cmd \in {"MerlinEnableExtension", "MerlinDisableExtension"} ->
            << <<item>> >>
      [] cmd \in FindCommands -> Candidates(item, extensions(cmd))
      [] OTHER -> <<item>>

\* on_done that takes every index for a choice
Chose_always(index) == TRUE
\* on_done: if index != -1
Chose(index) == index # -1
\* a list indexed the way Python indexes it: negative indices count from
\* the end, and an index outside the list raises IndexError
InRange(list, index) == -Len(list) <= index /\ index < Len(list)
\* indexing that always takes the first item
Subscript_first(list, index) == list[1]
Subscript(list, index) ==
    IF index < 0 THEN list[Len(list) + index + 1] ELSE list[index + 1]

\* merlin_view(view) with no operation yet: the MerlinProcess is
\* constructed if there is none
Construct ==
    LET mp == merlin_process
    IN  /\ running_process' = mp.proc
        /\ constructed' = constructed + mp.made
        /\ alive' = (mp.made = 1 \/ alive)

\* run of the menu commands: merlin_view, then the listing operation
MerlinMenuCommand(cmd) ==
    LET t == ThreadOf(cmd)
        v == active
    IN  /\ Free(cmd)
        /\ th' = [th EXCEPT ![t] = Frame(cmd, "list", v, NoPos, <<>>)]
        /\ inv' = [NewInv(cmd, v) EXCEPT
                      !.issued = <<[op |-> ListOp(cmd),
                                    args |-> ListArgs(cmd)]>>]
        /\ Begin(t, ListOp(cmd), v, ListArgs(cmd), inflight)
        /\ UNCHANGED <<workload, config, crashes, lastCall, edVars, cplVars,
                       diagVars, ui>>

\* the listing returned: show_quick_panel(listing, self.on_done)
menu_listed(t) ==
    /\ th[t].h \in MenuCommands
    /\ th[t].pc = "list"
    /\ \E o \in Outcomes(t) :
          IF o.ok
          THEN /\ ui' = <<[kind |-> "menu", cmd |-> th[t].h,
                           view |-> th[t].view, items |-> o.val]>>
               /\ th' = [th EXCEPT ![t].pc = "done"]
               /\ inv' = [inv EXCEPT !.resp = <<o.val>>]
               /\ End(t, o)
          ELSE /\ Raise(t, o)
               /\ ui' = ui
    /\ UNCHANGED <<workload, config, crashes, edVars, cplVars, diagVars>>

\* on_done(index) of the menu commands: the user chose an item of the
\* quick panel, or dismissed it (index -1)
menu_on_done(index) ==
    LET m == ui[1]
        t == ThreadOf(m.cmd)
        h == OnDone(m.cmd)
    IN  /\ ui # <<>>
        /\ m.kind = "menu"
        /\ Idle(t)
        /\ index \in -1..(Len(m.items) - 1)
        /\ ui' = <<>>
        /\ IF ~Chose(index)
           THEN /\ th' = [th EXCEPT ![t] =
                            Frame(h, "done", m.view, NoPos, <<index, m.cmd>>)]
                /\ inv' = [NewInv(h, m.view) EXCEPT !.resp = <<m.items>>]
                /\ UNCHANGED <<procVars, wireVars>>
           ELSE IF ~InRange(m.items, index)
           THEN /\ th' = [th EXCEPT ![t] =
                            Frame(h, "done", m.view, NoPos, <<index, m.cmd>>)]
                /\ inv' = [NewInv(h, m.view) EXCEPT !.resp = <<m.items>>,
                                                    !.aborted = TRUE]
                /\ UNCHANGED <<procVars, wireVars>>
           ELSE LET args == ChoiceArgs(m.cmd, Subscript(m.items, index))
                IN  /\ th' = [th EXCEPT ![t] =
                                Frame(h, "choice", m.view, NoPos,
                                      <<index, m.cmd>>)]
                    /\ inv' = [NewInv(h, m.view) EXCEPT
                                  !.resp = <<m.items>>,
                                  !.issued = <<[op |-> ChoiceOp(m.cmd),
                                                args |-> args]>>]
                    /\ Begin(t, ChoiceOp(m.cmd), m.view, args, inflight)
                    /\ lastCall' = lastCall
        /\ UNCHANGED <<workload, config, crashes, edVars, cplVars, diagVars>>

\* run of MerlinAddBuildPath and MerlinAddSourcePath: merlin_view, then the
\* input panel, which proposes the directory of the file
MerlinAddPath(cmd) ==
    /\ Free(cmd)
    /\ Construct
    /\ ui' = <<[kind |-> "input_dir", cmd |-> cmd, view |-> active,
                items |-> <<>>]>>
    /\ UNCHANGED <<workload, config, crashes, wireVars, th, edVars, cplVars,
                   diagVars, inv>>

\* on_done(directory) of MerlinAddBuildPath and MerlinAddSourcePath
add_path_on_done(directory) ==
    LET m == ui[1]
        t == ThreadOf(m.cmd)
        h == OnDone(m.cmd)
    IN  /\ ui # <<>>
        /\ m.kind = "input_dir"
        /\ Idle(t)
        /\ ui' = <<>>
        /\ th' = [th EXCEPT ![t] =
                     Frame(h, "choice", m.view, NoPos, <<directory, m.cmd>>)]
        /\ inv' = [NewInv(h, m.view) EXCEPT
                      !.issued = <<[op |-> ChoiceOp(m.cmd),
                                    args |-> <<directory>>]>>]
        /\ Begin(t, ChoiceOp(m.cmd), m.view, <<directory>>, inflight)
        /\ UNCHANGED <<workload, config, crashes, lastCall, edVars, cplVars,
                       diagVars>>

\* the operation of on_done returned; MerlinWhich opens the file found
choice_done(t) ==
    /\ th[t].h \in MenuOnDone \cup AddPathOnDone
    /\ th[t].pc = "choice"
    /\ \E o \in Outcomes(t) :
          IF o.ok
          THEN /\ config' = Applied(config, call[t])
               /\ th' = [th EXCEPT ![t].pc = "done"]
               /\ inv' = IF th[t].arg[2] \in FindCommands
                         THEN [inv EXCEPT
                                 !.opened = <<[file |-> o.val, line |-> 0,
                                               col |-> 0, flags |-> {}]>>]
                         ELSE inv
               /\ End(t, o)
          ELSE /\ Raise(t, o)
               /\ config' = config
    /\ UNCHANGED <<workload, crashes, edVars, cplVars, diagVars, ui>>

Next ==
    \/ \E v \in Views : on_post_save(v)
    \/ \E t \in Threads : post_save_synced(t)
    \/ \E t \in Threads : post_save_errors(t)
    \/ \E v \in Views : on_modified(v)
    \/ \E v \in Views : on_selection_modified(v)
    \/ \E v \in Views : Activate(v)
    \/ \E v \in Views : MerlinTypeCommand(v)
    \/ \E v \in Views : MerlinTypeMenu(v)
    \/ \E v \in Views : \E p \in 0..Len(Texts[buf[v]]) : on_hover(v, p)
    \/ \E v \in Views : on_hover_elsewhere(v)
    \/ \E t \in Threads : type_synced(t)
    \/ \E t \in Threads : type_enclosed(t)
    \/ \E i \in -1..1 : type_menu_on_done(i)
    \/ \E c \in LocateCommands : MerlinLocate(c)
    \/ \E c \in LocateNameCommands : MerlinLocateName(c)
    \/ input_cancelled
    \/ \E n \in Names : locate_name_on_done(n)
    \/ \E t \in Threads : locate_synced(t)
    \/ \E t \in Threads : locate_result(t)
    \/ \E v \in Views : on_query_completions(v)
    \/ show
    \/ \E t \in Threads : completions_synced(t)
    \/ \E t \in Threads : completions_result(t)
    \/ \E c \in MenuCommands : MerlinMenuCommand(c)
    \/ \E t \in Threads : menu_listed(t)
    \/ \E i \in -1..1 : menu_on_done(i)
    \/ \E c \in AddPathCommands : MerlinAddPath(c)
    \/ \E d \in Dirs : add_path_on_done(d)
    \/ \E t \in Threads : choice_done(t)
    \/ \E t \in Threads : Retry(t)
    \/ \E t \in Threads : Return(t)
    \/ Crash

Spec == Init /\ [][Next]_vars

(***************************************************************************)
(* Properties.                                                             *)
(***************************************************************************)
PositionQueries == {"type_enclosing", "locate", "complete_cursor"}
AllLocateCommands == LocateCommands \cup LocateNameCommands
Finished(h) == \E t \in Threads : At(t, h, "done")
\* the offset an analyzer position denotes in a text
Offset(txt, pos) == text_point(txt, pos.line - 1, pos.col)
WithSpan(errors) == SelectSeq(errors, LAMBDA e : e.start # <<>> /\ e.end # <<>>)

\* C1: a handler that has a position-dependent query (type_enclosing,
\* locate, complete_cursor) in progress completed a sync() on the same view
\* earlier in the same invocation, and the buffer of that view is still the
\* one that sync() pushed
C1_SyncBeforeQuery ==
    \A t \in Threads :
        call[t].op \in PositionQueries =>
            /\ inv.h = th[t].h
            /\ inv.synced = call[t].view
            /\ inv.q # <<>>
            /\ inv.q[1].view = call[t].view
            /\ inv.q[1].buf = inv.syncedBuf
            /\ buf[call[t].view] = inv.syncedBuf
C1_Witness ==
    \E t \in Threads :
        /\ call[t].op = "complete_cursor"
        /\ call[t].st = "sent"
        /\ inv.synced = call[t].view

\* C2: the entries a call of on_query_completions returns to the editor
\* were produced by a complete_cursor query for the same view, prefix and
\* location as that call
C2_OnlyFreshResults ==
    (inv.h = "on_query_completions" /\ inv.ret # <<>>
        /\ inv.ret[1].entries # <<>>)
    => inv.retFrom = inv.req

\* C3: at most one command is written to the analyzer and not yet answered
C3_OneInFlight ==
    /\ inflight <= 1
    /\ Cardinality({t \in Threads : call[t].st = "sent"}) <= 1
C3_Witness ==
    /\ inflight = 1
    /\ lastCall # <<>>
    /\ \E t \in Threads : call[t].op = "report_errors" /\ call[t].st = "sent"

\* C4: no MerlinProcess exists before the first session operation, at most
\* one is ever constructed, and every operation uses that instance
C4_LazySingleton ==
    /\ constructed <= 1
    /\ running_process = constructed
    /\ \A t \in Threads : call[t].st # "none" => call[t].proc = 1
    /\ constructed = 0 =>
          /\ lastCall = <<>>
          /\ \A t \in Threads : call[t].st = "none"
C4_Witness ==
    /\ constructed = 1
    /\ crashes = 1
    /\ \E t \in Threads : call[t].st = "sent" /\ call[t].proc = 1
                          /\ call[t].deadAtStart

\* C5: an operation issued while the analyzer process is dead respawns it
\* exactly once and is tried exactly twice; when the transport fails the
\* retry too, the caller gets TransportError
C5_RespawnOnce ==
    /\ \A t \in Threads :
          (call[t].st # "none" /\ call[t].deadAtStart) =>
              call[t].respawns = 1 /\ call[t].attempts = 2
    /\ (lastCall # <<>> /\ lastCall[1].deadAtStart) =>
          /\ lastCall[1].respawns = 1
          /\ lastCall[1].attempts = 2
          /\ lastCall[1].transportFailed =>
                ~lastCall[1].ok /\ lastCall[1].err = "TransportError"
C5_Witness ==
    /\ lastCall # <<>>
    /\ lastCall[1].deadAtStart
    /\ lastCall[1].transportFailed
    /\ lastCall[1].attempts = 2

\* C6: when sync() or complete_cursor() fails inside on_query_completions,
\* the handler is not left through an exception and the latch cplns_ready
\* is None afterwards
C6_FailureSurfaced ==
    (Finished("on_query_completions") /\ lastCall # <<>> /\ ~lastCall[1].ok)
    => ~inv.aborted /\ cplns_ready = "None"

\* C7: a query about editor offset p carries line = row + 1 and column =
\* col of rowcol(p), which is the analyzer position of p; and the regions
\* and carets made from analyzer positions (type-enclosing spans, same-file
\* locate result, diagnostics) lie at the offsets those positions denote
C7_QueryPosition ==
    inv.q # <<>> =>
        LET q == inv.q[1]
            txt == Texts[q.buf]
        IN  /\ q.args.line = rowcol(txt, inv.pos).row + 1
            /\ q.args.col = rowcol(txt, inv.pos).col
            /\ Offset(txt, q.args) = inv.pos
C7_LocateCaret ==
    (inv.h \in AllLocateCommands /\ inv.resp # <<>>
        /\ inv.resp[1].msg = <<>> /\ inv.resp[1].file = <<>>)
    => sel[inv.view] =
         Caret(Offset(Texts[buf[inv.view]], inv.resp[1].pos[1]))
C7_MenuRegion ==
    \A t \in Threads :
        (At(t, "MerlinTypeMenu.on_done", "done") /\ th[t].arg[1] > -1) =>
            LET item == inv.resp[1][th[t].arg[1] + 1]
                txt == Texts[buf[inv.view]]
            IN  sel[inv.view] =
                  <<Region(Offset(txt, item.start), Offset(txt, item.end))>>
C7_DiagnosticRegions ==
    (inv.h = "on_post_save" /\ inv.resp # <<>>) =>
        LET txt == Texts[buf[inv.view]]
            es == WithSpan(inv.resp[1])
        IN  /\ Len(underlines[inv.view]) = Len(es)
            /\ \A i \in 1..Len(es) :
                  /\ underlines[inv.view][i] =
                        Region(Offset(txt, es[i].start[1]),
                               Offset(txt, es[i].end[1]))
                  /\ error_messages[i].region.a =
                        LineStart(txt, Offset(txt, es[i].start[1])) - 1
C7_ConvertedOnce ==
    /\ C7_QueryPosition
    /\ C7_LocateCaret
    /\ C7_MenuRegion
    /\ C7_DiagnosticRegions
C7_Witness ==
    /\ inv.q # <<>>
    /\ inv.pos = 4
    /\ inv.q[1].buf = 1
    /\ inv.q[1].args.line = 2
    /\ inv.q[1].args.col = 1

\* C8: merlin_locate_result does exactly one of three things: for a result
\* with file and pos it opens file:line:col+1 and leaves every selection as
\* it was; for a result with pos alone it makes the selection of the active
\* view one empty region at the converted position and opens nothing; for a
\* message it shows the message and changes no selection and opens nothing
C8_LocateResult ==
    (inv.h \in AllLocateCommands /\ inv.resp # <<>>) =>
        LET r == inv.resp[1]
        IN  CASE r.msg # <<>> ->
                   /\ inv.dialog = r.msg
                   /\ inv.opened = <<>>
                   /\ sel = inv.selBefore
              [] r.msg = <<>> /\ r.file # <<>> ->
                   /\ Len(inv.opened) = 1
                   /\ inv.opened[1].file = r.file[1]
                   /\ inv.opened[1].line = r.pos[1].line
                   /\ inv.opened[1].col = r.pos[1].col + 1
                   /\ inv.dialog = <<>>
                   /\ sel = inv.selBefore
              [] OTHER ->
                   /\ Len(sel[inv.view]) = 1
                   /\ sel[inv.view][1].a = sel[inv.view][1].b
                   /\ sel[inv.view][1].a =
                        Offset(Texts[buf[inv.view]], r.pos[1])
                   /\ \A v \in Views \ {inv.view} : sel[v] = inv.selBefore[v]
                   /\ inv.opened = <<>>
                   /\ inv.dialog = <<>>
C8_Witness ==
    /\ inv.h \in AllLocateCommands
    /\ inv.resp # <<>>
    /\ inv.resp[1].msg = <<>>
    /\ inv.resp[1].file = <<>>
    /\ Len(inv.selBefore[inv.view]) = 2

\* C9: every locate command passes the kind of its kind() to locate, and
\* the by-name commands pass the entered identifier as well
C9_KindPassed ==
    \A t \in Threads :
        call[t].op = "locate" =>
            /\ call[t].args.kind = <<kind(th[t].h)>>
            /\ th[t].h \in LocateNameCommands => call[t].args.ident = th[t].arg

\* C10: after an on_post_save that got its report_errors response,
\* error_messages holds one entry per diagnostic of that response that has
\* a start and an end, in response order, and nothing else; and only that
\* step of on_post_save ever changes error_messages
C10_Replaced ==
    (inv.h = "on_post_save" /\ inv.resp # <<>>) =>
        LET es == WithSpan(inv.resp[1])
        IN  /\ Len(error_messages) = Len(es)
            /\ \A i \in 1..Len(es) :
                  error_messages[i].text = clean_whitespace(es[i].message)
C10_OnlySaveWrites ==
    [][error_messages' # error_messages =>
          \E t \in Threads : At(t, "on_post_save", "report_errors")]_vars
C10_HeldUntilNextSave == []C10_Replaced /\ C10_OnlySaveWrites
C10_Witness ==
    /\ inv.h = "on_post_save"
    /\ inv.resp = << <<>> >>
    /\ error_messages = <<>>
    /\ panel.data # <<>>

BuildPathHandlers ==
    {"MerlinAddBuildPath.on_done", "MerlinRemoveBuildPath",
     "MerlinRemoveBuildPath.on_done"}
SourcePathHandlers ==
    {"MerlinAddSourcePath.on_done", "MerlinRemoveSourcePath",
     "MerlinRemoveSourcePath.on_done"}
BuildPathOps == {"list_build_path", "add_build_path", "remove_build_path"}
SourcePathOps == {"list_source_path", "add_source_path", "remove_source_path"}
Occurrences(q, x) == Cardinality({i \in DOMAIN q : q[i] = x})
\* a handler whose operations all returned normally
Succeeded(h) == Finished(h) /\ inv.h = h /\ ~inv.aborted

\* C11: when an add-path command's operation has succeeded, the entered
\* directory is on the matching path list exactly once and the other list
\* is as before; when a remove-path command's operation has succeeded, the
\* matching list is the listing fetched by run without the item at the
\* chosen index, and the other list is as before; and the build-path
\* commands issue only build-path operations, the source-path commands
\* only source-path operations
C11_Added ==
    /\ Succeeded("MerlinAddBuildPath.on_done") =>
          /\ Occurrences(config.build_path, inv.issued[1].args[1]) = 1
          /\ config.source_path = inv.cfgBefore[1].source_path
    /\ Succeeded("MerlinAddSourcePath.on_done") =>
          /\ Occurrences(config.source_path, inv.issued[1].args[1]) = 1
          /\ config.build_path = inv.cfgBefore[1].build_path
C11_Removed ==
    \A t \in Threads :
        LET listing == inv.resp[1]
            index == th[t].arg[1]
            rest == [i \in 1..(Len(listing) - 1) |->
                        IF i <= index THEN listing[i] ELSE listing[i + 1]]
        IN  /\ (Succeeded("MerlinRemoveBuildPath.on_done")
                    /\ At(t, "MerlinRemoveBuildPath.on_done", "done")
                    /\ index # -1) =>
                  /\ config.build_path = rest
                  /\ Occurrences(config.build_path, listing[index + 1]) = 0
                  /\ config.source_path = inv.cfgBefore[1].source_path
            /\ (Succeeded("MerlinRemoveSourcePath.on_done")
                    /\ At(t, "MerlinRemoveSourcePath.on_done", "done")
                    /\ index # -1) =>
                  /\ config.source_path = rest
                  /\ Occurrences(config.source_path, listing[index + 1]) = 0
                  /\ config.build_path = inv.cfgBefore[1].build_path
C11_MatchingOperation ==
    \A t \in Threads :
        /\ call[t].op \in BuildPathOps <=>
              (th[t].h \in BuildPathHandlers /\ call[t].st # "none")
        /\ call[t].op \in SourcePathOps <=>
              (th[t].h \in SourcePathHandlers /\ call[t].st # "none")
C11_PathConfiguration == C11_Added /\ C11_Removed /\ C11_MatchingOperation
C11_Witness ==
    /\ Succeeded("MerlinRemoveBuildPath.on_done")
    /\ Len(inv.resp[1]) = 2
    /\ \E t \in Threads :
          At(t, "MerlinRemoveBuildPath.on_done", "done") /\ th[t].arg[1] = 1
    /\ config.build_path = <<inv.resp[1][1]>>
    /\ config.source_path # <<>>

\* C12: an on_done(-1) of a menu command (load package, remove build or
\* source path, enable or disable extension, find file, type menu) ends
\* without an operation issued, without a file opened, and with the
\* session's configuration and every selection as they were
C12_CancelNoEffect ==
    \A t \in Threads :
        (th[t].h \in MenuOnDone \cup {"MerlinTypeMenu.on_done"}
            /\ th[t].arg[1] = -1) =>
            /\ th[t].pc = "done"
            /\ call[t].st = "none"
            /\ inflight = 0
            /\ inv.issued = <<>>
            /\ inv.q = <<>>
            /\ inv.opened = <<>>
            /\ ~inv.aborted
            /\ config = inv.cfgBefore[1]
            /\ sel = inv.selBefore
C12_Witness ==
    /\ \E t \in Threads :
          At(t, "MerlinRemoveBuildPath.on_done", "done") /\ th[t].arg[1] = -1
    /\ Len(config.build_path) = 2

\* the order of the file extensions each find-file command prefers
FindOrder(cmd) ==
    IF cmd = "MerlinFindMl" THEN <<".ml", ".mli", ".mf", ".mfi">>
    ELSE <<".mli", ".ml", ".mfi", ".mf">>
\* C13: a find-file command passes its list of extensions (.ml, .mli, .mf,
\* .mfi for MerlinFindMl; .mli, .ml, .mfi, .mf for MerlinFindMli) to
\* which_with_ext; its on_done passes to which_path the chosen module name
\* followed by each extension, in that order; and the file it opens is the
\* first of these candidates that exists
C13_CandidateOrder ==
    \A t \in Threads :
        /\ call[t].op = "which_with_ext" => call[t].args = FindOrder(th[t].h)
        /\ call[t].op = "which_path" =>
              LET order == FindOrder(th[t].arg[2])
                  module_name == inv.resp[1][th[t].arg[1] + 1]
              IN  /\ Len(call[t].args) = 4
                  /\ \A i \in 1..4 :
                        call[t].args[i] = <<module_name, order[i]>>
        /\ \A c \in FindCommands :
              (At(t, OnDone(c), "done") /\ inv.opened # <<>>) =>
                  LET order == FindOrder(c)
                      module_name == inv.resp[1][th[t].arg[1] + 1]
                  IN  \E i \in 1..4 :
                        /\ inv.opened[1].file = <<module_name, order[i]>>
                        /\ <<module_name, order[i]>> \in Files
                        /\ \A j \in 1..(i - 1) :
                              <<module_name, order[j]>> \notin Files
C13_Witness ==
    /\ Succeeded("MerlinFindMli.on_done")
    /\ inv.opened # <<>>
    /\ inv.opened[1].file = <<"n", ".mfi">>

\* C14: when type_enclosing answered the type command or the hover handler,
\* the handler is not left through an exception if the answer is empty, and
\* the popup shows the first item if it is not
C14_EmptyEnclosingHandled ==
    (inv.h \in {"MerlinTypeCommand", "on_hover"} /\ inv.resp # <<>>) =>
        IF inv.resp[1] = <<>>
        THEN ~inv.aborted
        ELSE /\ Len(inv.popup) = 1
             /\ inv.popup[1].content = item_format(inv.resp[1][1])

\* a call of on_query_completions that returned to the editor
Delivered(t) == At(t, "on_query_completions", "done") /\ ~inv.aborted
\* the call was made by the auto_complete command that show() runs
Retriggered(t) == th[t].arg[2]

\* C15: a call of on_query_completions that the user's typing caused, and
\* that returned, issued a complete_cursor query
C15_UserRequestQueries ==
    \A t \in Threads :
        (Delivered(t) /\ ~Retriggered(t)) =>
            /\ inv.q # <<>>
            /\ inv.q[1].op = "complete_cursor"

\* C16: a call of on_query_completions that issued complete_cursor returns
\* default_return, and when the response had entries they are stored and a
\* re-trigger is scheduled; a re-triggered call returns stored entries and
\* issues no complete_cursor; and a call that returned entries leaves the
\* stored list empty
C16_TwoPhaseDelivery ==
    \A t \in Threads :
        Delivered(t) =>
            /\ inv.q # <<>> =>
                  /\ inv.ret = <<default_return>>
                  /\ inv.resp[1].entries # <<>> =>
                        /\ completions = Cplns(inv.resp[1])
                        /\ cplnsFrom = inv.req
                        /\ timeouts # <<>>
            /\ Retriggered(t) =>
                  /\ inv.q = <<>>
                  /\ inv.ret[1].entries # <<>>
            /\ inv.ret[1].entries # <<>> => completions = <<>>

\* the held diagnostics whose region the first selection of view v meets
Hits(v) ==
    {i \in DOMAIN error_messages :
        intersects(error_messages[i].region, sel[v][1])}
\* C17: after on_selection_modified, and after an on_post_save that got its
\* diagnostics, the error panel is shown exactly if the caret region meets
\* the region of a held diagnostic, and then it shows the line number and
\* the message of the first such diagnostic
C17_PanelFollowsCaret ==
    (Succeeded("on_selection_modified")
        \/ (Succeeded("on_post_save") /\ inv.resp # <<>>)) =>
        LET v == inv.view
            first == error_messages[SetMin(Hits(v))]
        IN  /\ panel.shown <=> Hits(v) # {}
            /\ Hits(v) # {} =>
                  panel.data =
                    <<[lineno |-> get_lineno(Texts[buf[v]],
                                             begin(first.region)),
                       text |-> first.text]>>

\* C18: when a selection change in a view makes the error panel show a
\* held diagnostic, the diagnostics held are those of a report_errors
\* query for that view
C18_DiagnosticsPerView ==
    (Succeeded("on_selection_modified") /\ Hits(inv.view) # {}) =>
        errorsFrom = <<inv.view>>

\* the kind a cursor-locate command is named for
NamedKind(cmd) ==
    CASE cmd = "MerlinLocateMli" -> "mli"
      [] cmd = "MerlinLocateMl" -> "ml"
      [] cmd = "MerlinLocateMf" -> "mf"
\* C19: a cursor-locate command issues locate with the kind it is named
\* for: MerlinLocateMl with ml, MerlinLocateMli with mli, MerlinLocateMf
\* with mf
C19_KindAsNamed ==
    \A t \in Threads :
        (call[t].op = "locate" /\ th[t].h \in LocateCommands) =>
            call[t].args.kind = <<NamedKind(th[t].h)>>

====
